---- MODULE Spec2Model ----
(***************************************************************************)
(* State-machine model of src/src/GatewayConnectionManager.cpp: the        *)
(* process-wide connection flags, the stored backend auth token, the       *)
(* GatewayClient session with its websocket, the two cooldown timers and   *)
(* the handlers that drive them (Update, Pair, UnPair, the WiFi events     *)
(* and the websocket events).                                              *)
(*                                                                         *)
(* The handlers are written as operators on a record m holding the         *)
(* program state (flags, token, ws, attempt), the clock reading (now),     *)
(* and what the running handler produced: its return value (ret), the      *)
(* HTTP requests it issued (http) and the history of keep-alive frames     *)
(* (ka) and gateway-assignment requests (lcg).  An action applies one      *)
(* handler to the current state and stores the result.                     *)
(*                                                                         *)
(* m also holds the connected-changed handler registry (reg, nextId) with  *)
(* the last value each handler was given (note), what the environment      *)
(* hands the running handler (the text frame and the answers of the        *)
(* command collaborator), and the calls the handler made out (cmds,        *)
(* portal, notified, invoked).                                             *)
(***************************************************************************)
EXTENDS Integers, Sequences, FiniteSets, TLC

VARIABLES
    s_flags,                \* static std::uint8_t s_flags
    authToken,              \* Config backend auth token, "" when cleared
    s_wsClient,             \* static std::unique_ptr<GatewayClient> s_wsClient
    lastConnectionAttempt,  \* static std::uint64_t _lastConnectionAttempt
    now,                    \* OpenShock::Millis()
    lastCall,               \* history: the last handler run and its outcome
    keepAlive,              \* history: keep-alive frames of the current connection
    assign,                 \* history: gateway-assignment requests issued
    s_connectedChangedHandlers,  \* handle id -> what the handler does when called
    nextHandleId,           \* static std::uint64_t nextHandleId
    lastNote                \* history: handle id -> last value the handler was given

vars == <<s_flags, authToken, s_wsClient, lastConnectionAttempt, now,
          lastCall, keepAlive, assign,
          s_connectedChangedHandlers, nextHandleId, lastNote>>

---------------------------------------------------------------------------
(* Bounds and input sets *)

MaxTicks == 7
TickSteps == {10000}
Tokens == {"tokA", "tokB"}
HttpCodes == {200, 401, 500}
PairBodies == Tokens \cup {""}
LcgResponses == [code : {200, 500}, fqdn : BOOLEAN, country : BOOLEAN]

\* Connected-changed handlers: at most MaxHandlers are ever registered.  A
\* handler either only takes the value, or unregisters itself, or registers
\* one more handler when it is called.
MaxHandlers == 2
Reentrant == {"unregisterSelf", "registerOther"}
\* The orders in which a range-for may visit the unordered_map, and what a
\* build does with the loop iterator once a handler has invalidated it: it
\* keeps walking the remaining entries, or it reads the end of the map.
Orders(ids) ==
    {o \in [1..Cardinality(ids) -> ids] :
        \A i, j \in 1..Cardinality(ids) : o[i] = o[j] => i = j}
Invalidated == {"continues", "ends"}

\* Inbound text frames, as the JSON document they decode to.
MaxBatch == 2
Commands ==
    {[Id |-> 1, Type |-> 1, Intensity |-> 50, Duration |-> 1000, Model |-> 1],
     [Id |-> 65535, Type |-> 2, Intensity |-> 255, Duration |-> 300,
      Model |-> 2]}
Batches == UNION {[1..n -> Commands] : n \in 0..MaxBatch}
ArrayData(items) == [kind |-> "array", items |-> items]
BoolData(v) == [kind |-> "bool", val |-> v]
Frames ==
    {[ResponseType |-> 0, Data |-> ArrayData(b)] : b \in Batches}
    \cup {[ResponseType |-> 1, Data |-> BoolData(v)] : v \in BOOLEAN}
    \cup {[ResponseType |-> 2, Data |-> ArrayData(b)] :
              b \in [1..1 -> Commands]}
    \cup {[ResponseType |-> 2, Data |-> BoolData(TRUE)],
          [ResponseType |-> 0, Data |-> BoolData(TRUE)]}

---------------------------------------------------------------------------
(* Flags *)

FLAG_NONE == 0
FLAG_HAS_IP == 1
FLAG_AUTHENTICATED == 2

HasFlag(f, b) == (f \div b) % 2 = 1
FlagOr(f, b) == IF HasFlag(f, b) THEN f ELSE f + b
FlagAnd(f, mask) ==
    (IF HasFlag(f, FLAG_HAS_IP) /\ HasFlag(mask, FLAG_HAS_IP)
        THEN FLAG_HAS_IP ELSE 0)
  + (IF HasFlag(f, FLAG_AUTHENTICATED) /\ HasFlag(mask, FLAG_AUTHENTICATED)
        THEN FLAG_AUTHENTICATED ELSE 0)

---------------------------------------------------------------------------
(* GatewayClient *)

NullClient == [null |-> TRUE]

\* The constructor: Disconnected, m_lastKeepAlive 0, websocket not begun,
\* DeviceToken header set from the token it is given.
GatewayClient(tok) ==
    [m_state |-> "Disconnected", m_lastKeepAlive |-> 0,
     m_webSocket |-> "closed", deviceToken |-> tok]

\* The destructor (reached by s_wsClient = nullptr).
DestroyClient(m) == [m EXCEPT !.ws = NullClient]

NoHistory == [at |-> -1, gap |-> -1]

\* A call from the orchestration into fn, with the state the session is in
\* when the call is made.
Entered(m, fn) ==
    [m EXCEPT !.invoked = @ \cup
        {[fn |-> fn,
          state |-> IF m.ws = NullClient THEN "null" ELSE m.ws.m_state]}]
Sent(h, t) == [at |-> t, gap |-> IF h.at = -1 THEN -1 ELSE t - h.at]

sendKeepAlive(m) ==
    IF m.ws.m_webSocket = "open"
        THEN [m EXCEPT !.ka = Sent(@, m.now)]
        ELSE m

\* connect without its state guard.
connect_Unguarded(m) ==
    [m EXCEPT !.ws.m_state = "Connecting", !.ws.m_webSocket = "handshake"]

connect(m) ==
    IF m.ws.m_state # "Disconnected"
        THEN m
        ELSE [m EXCEPT !.ws.m_state = "Connecting",
                       !.ws.m_webSocket = "handshake"]

disconnect(m) ==
    IF m.ws.m_state # "Connected"
        THEN m
        ELSE [m EXCEPT !.ws.m_state = "Disconnecting",
                       !.ws.m_webSocket = "closing"]

\* loop reporting idle while the handshake is still running.
loop_IdleWhileConnecting(m) ==
    IF m.ws.m_state # "Connected"
        THEN [m EXCEPT !.ret = FALSE]
    ELSE IF m.now - m.ws.m_lastKeepAlive >= 30000
        THEN [sendKeepAlive(m) EXCEPT !.ws.m_lastKeepAlive = m.now,
                                      !.ret = TRUE]
    ELSE [m EXCEPT !.ret = TRUE]

loop(m) ==
    IF m.ws.m_state = "Disconnected"
        THEN [m EXCEPT !.ret = FALSE]
    ELSE IF m.ws.m_state # "Connected"
        THEN [m EXCEPT !.ret = TRUE]
    ELSE IF m.now - m.ws.m_lastKeepAlive >= 30000
        THEN [sendKeepAlive(m) EXCEPT !.ws.m_lastKeepAlive = m.now,
                                      !.ret = TRUE]
    ELSE [m EXCEPT !.ret = TRUE]

Without(f, id) == [i \in DOMAIN f \ {id} |-> f[i]]
With(f, id, v) == [i \in DOMAIN f \cup {id} |-> IF i = id THEN v ELSE f[i]]

\* The handle taken from the size of the map instead of the counter.
RegisterConnectedChangedHandler_ReusesId(m, handler) ==
    [m EXCEPT !.reg = With(@, Cardinality(DOMAIN m.reg), handler),
              !.nextId = @ + 1,
              !.ret = Cardinality(DOMAIN m.reg)]

RegisterConnectedChangedHandler(m, handler) ==
    [m EXCEPT !.reg = With(@, m.nextId, handler),
              !.nextId = @ + 1,
              !.ret = m.nextId]

UnRegisterConnectedChangedHandler(m, handlerId) ==
    IF handlerId \in DOMAIN m.reg
        THEN [m EXCEPT !.reg = Without(@, handlerId)]
        ELSE m

\* handler.second(value): the handler takes the value and then does what it
\* was written to do.
CallHandler(m, h, value) ==
    LET m1 == [m EXCEPT !.notified = Append(@, [id |-> h, value |-> value]),
                        !.note = With(@, h, value)]
    IN  CASE m.reg[h] = "unregisterSelf" ->
                UnRegisterConnectedChangedHandler(m1, h)
          [] m.reg[h] = "registerOther" /\ m.nextId < MaxHandlers ->
                [RegisterConnectedChangedHandler(m1, "plain")
                    EXCEPT !.ret = m.ret]
          [] OTHER -> m1

\* The loop that calls nobody.
NotifyHandlers_Silent(m, value, rest) == m

\* for (auto& handler : s_connectedChangedHandlers) handler.second(value),
\* with rest the entries the iterator has still to visit.  A handler that
\* erases its own entry, or inserts one, invalidates the iterator.
RECURSIVE NotifyHandlers(_, _, _)
NotifyHandlers(m, value, rest) ==
    IF rest = <<>> THEN m
    ELSE LET h  == Head(rest)
             m1 == CallHandler(m, h, value)
             added == DOMAIN m1.reg \ DOMAIN m.reg
             more == IF added # {} /\ m.visitNew
                         THEN <<CHOOSE k \in added : TRUE>> ELSE <<>>
         IN  IF h \notin DOMAIN m.reg
                 THEN NotifyHandlers(m, value, Tail(rest))
             ELSE IF m1.reg # m.reg /\ m.invalidated = "ends"
                 THEN m1
             ELSE NotifyHandlers(m1, value, Tail(rest) \o more)


\* JsonArrayConst data = doc["Data"]: empty unless Data is an array.
ArrayOf(d) == IF d.kind = "array" THEN d.items ELSE <<>>
\* (bool)doc["Data"]: false unless Data is a boolean.
BoolOf(d) == IF d.kind = "bool" THEN d.val ELSE FALSE
\* The static_casts to std::uint16_t, std::uint8_t and unsigned int (32
\* bits: every non-negative integer TLC can hold is below 2^32 and kept).
AsUInt16(v) == v % 65536
AsUInt8(v) == v % 256
AsUInt(v) == IF v >= 0 THEN v ELSE 0

\* One HandleCommand call: its arguments and the collaborator's answer.
HandleCommand(cur, ok) ==
    [id |-> AsUInt16(cur.Id), type |-> AsUInt8(cur.Type),
     intensity |-> AsUInt8(cur.Intensity), duration |-> AsUInt(cur.Duration),
     model |-> AsUInt8(cur.Model), ok |-> ok]

\* The loop leaving the batch at the first rejected command.
handleControlCommandMessage_StopsOnFailure(m) ==
    LET data == ArrayOf(m.frame.Data)
        bad  == {i \in 1..Len(data) : ~m.accept[i]}
        n    == IF bad = {} THEN Len(data)
                ELSE CHOOSE i \in bad : \A j \in bad : i <= j
    IN  [m EXCEPT !.cmds = @ \o [i \in 1..n |->
                                    HandleCommand(data[i], m.accept[i])]]

handleControlCommandMessage(m) ==
    LET data == ArrayOf(m.frame.Data)
    IN  [m EXCEPT !.cmds = @ \o [i \in 1..Len(data) |->
                                    HandleCommand(data[i], m.accept[i])]]

handleCaptivePortalMessage(m) ==
    [m EXCEPT !.portal = Append(@, BoolOf(m.frame.Data))]

\* The switch treating every type other than 1 as a control command.
parseMessage_DefaultsToCommand(m) ==
    IF m.frame.ResponseType = 1
        THEN handleCaptivePortalMessage(m)
        ELSE handleControlCommandMessage(m)

parseMessage(m) ==
    CASE m.frame.ResponseType = 0 -> handleControlCommandMessage(m)
      [] m.frame.ResponseType = 1 -> handleCaptivePortalMessage(m)
      [] OTHER -> m

handleEvent(m, type) ==
    CASE type = "WStype_DISCONNECTED" ->
            NotifyHandlers([m EXCEPT !.ws.m_state = "Disconnected",
                                     !.ws.m_webSocket = "closed"],
                           FALSE, m.order)
      [] type = "WStype_CONNECTED" ->
            sendKeepAlive(
                NotifyHandlers([m EXCEPT !.ws.m_state = "Connected",
                                         !.ws.m_webSocket = "open",
                                         !.ka = NoHistory],
                               TRUE, m.order))
      [] type = "WStype_TEXT" -> parseMessage(m)
      [] OTHER -> m

---------------------------------------------------------------------------
(* GatewayConnectionManager *)

evGotIPHandler(m) == [m EXCEPT !.flags = FlagOr(@, FLAG_HAS_IP)]

\* The network-loss handler resetting the flags but keeping the session.
evWiFiDisconnectedHandler_KeepsClient(m) == [m EXCEPT !.flags = FLAG_NONE]

\* The network-loss handler closing the session gracefully instead of
\* destroying it.
evWiFiDisconnectedHandler_ClosesOnly(m) ==
    IF m.ws = NullClient
        THEN [m EXCEPT !.flags = FLAG_NONE]
        ELSE disconnect([m EXCEPT !.flags = FLAG_NONE])

evWiFiDisconnectedHandler(m) ==
    DestroyClient([m EXCEPT !.flags = FLAG_NONE])

IsConnectedIn(ws) ==
    IF ws = NullClient THEN FALSE ELSE ws.m_state = "Connected"

IsConnected == IsConnectedIn(s_wsClient)

IsPaired == HasFlag(s_flags, FLAG_AUTHENTICATED)

\* An HTTP GET run to completion: the URL, the DeviceToken header sent, the
\* response code and the "data" string of the response body.
Request(m, url, hdr, code, data) ==
    [m EXCEPT !.http = Append(@, [url |-> url, hdr |-> hdr,
                                  code |-> code, data |-> data])]

\* Pair setting the flag without persisting the token it received.
Pair_NoStore(m, code, body) ==
    IF ~HasFlag(m.flags, FLAG_HAS_IP)
        THEN [m EXCEPT !.ret = FALSE]
    ELSE LET m1 == Request(DestroyClient(m), "pair", "", code, body)
         IN  IF code # 200 \/ body = ""
                 THEN [m1 EXCEPT !.ret = FALSE]
             ELSE [m1 EXCEPT !.flags = FlagOr(@, FLAG_AUTHENTICATED),
                             !.ret = TRUE]

\* Pair treating 401 the way the credential verification does.
Pair_ClearsOn401(m, code, body) ==
    IF ~HasFlag(m.flags, FLAG_HAS_IP)
        THEN [m EXCEPT !.ret = FALSE]
    ELSE LET m1 == Request(DestroyClient(m), "pair", "", code, body)
         IN  IF code = 401
                 THEN [m1 EXCEPT !.token = "", !.ret = FALSE]
             ELSE IF code # 200 \/ body = ""
                 THEN [m1 EXCEPT !.ret = FALSE]
             ELSE [m1 EXCEPT !.token = body,
                             !.flags = FlagOr(@, FLAG_AUTHENTICATED),
                             !.ret = TRUE]

\* Pair without the reset of s_wsClient.
Pair_KeepsSession(m, code, body) ==
    IF ~HasFlag(m.flags, FLAG_HAS_IP)
        THEN [m EXCEPT !.ret = FALSE]
    ELSE LET m1 == Request(m, "pair", "", code, body)
         IN  IF code # 200
                 THEN [m1 EXCEPT !.ret = FALSE]
             ELSE IF body = ""
                 THEN [m1 EXCEPT !.ret = FALSE]
             ELSE [m1 EXCEPT !.token = body,
                             !.flags = FlagOr(@, FLAG_AUTHENTICATED),
                             !.ret = TRUE]

Pair(m, code, body) ==
    IF ~HasFlag(m.flags, FLAG_HAS_IP)
        THEN [m EXCEPT !.ret = FALSE]
    ELSE LET m1 == Request(DestroyClient(m), "pair", "", code, body)
         IN  IF code # 200
                 THEN [m1 EXCEPT !.ret = FALSE]
             ELSE IF body = ""
                 THEN [m1 EXCEPT !.ret = FALSE]
             ELSE [m1 EXCEPT !.token = body,
                             !.flags = FlagOr(@, FLAG_AUTHENTICATED),
                             !.ret = TRUE]

\* UnPair clearing every flag.
UnPair_ClearsNetwork(m) ==
    [DestroyClient([m EXCEPT !.flags = FLAG_NONE]) EXCEPT !.token = ""]

UnPair(m) ==
    [DestroyClient([m EXCEPT !.flags = FlagAnd(@, FLAG_HAS_IP)])
        EXCEPT !.token = ""]

\* FetchDeviceInfo without the FLAG_HAS_IP guard.
FetchDeviceInfo_NoIpGuard(m, tok, code) ==
    LET m1 == Request(m, "self", tok, code, "")
    IN  IF code = 401
            THEN [m1 EXCEPT !.token = "", !.ret = FALSE]
        ELSE IF code # 200
            THEN [m1 EXCEPT !.ret = FALSE]
        ELSE [m1 EXCEPT !.flags = FlagOr(@, FLAG_AUTHENTICATED),
                        !.ret = TRUE]

FetchDeviceInfo(m, tok, code) ==
    IF ~HasFlag(m.flags, FLAG_HAS_IP)
        THEN [m EXCEPT !.ret = FALSE]
    ELSE LET m1 == Request(m, "self", tok, code, "")
         IN  IF code = 401
                 THEN [m1 EXCEPT !.token = "", !.ret = FALSE]
             ELSE IF code # 200
                 THEN [m1 EXCEPT !.ret = FALSE]
             ELSE [m1 EXCEPT !.flags = FlagOr(@, FLAG_AUTHENTICATED),
                             !.ret = TRUE]

\* ConnectToLCG without the assignment _lastConnectionAttempt = msNow.
ConnectToLCG_NoStamp(m, resp) ==
    IF m.ws = NullClient
        THEN [m EXCEPT !.ret = FALSE]
    ELSE IF m.ws.m_state # "Disconnected"
        THEN [disconnect(Entered(m, "disconnect")) EXCEPT !.ret = FALSE]
    ELSE IF m.now - m.attempt < 20000
        THEN [m EXCEPT !.ret = FALSE]
    ELSE IF m.token = ""
        THEN [m EXCEPT !.ret = FALSE]
    ELSE LET m2 == [Request(m, "assignLCG", m.token, resp.code, "")
                       EXCEPT !.lcg = Sent(@, m.now)]
         IN  IF resp.code # 200 \/ ~resp.fqdn \/ ~resp.country
                 THEN [m2 EXCEPT !.ret = FALSE]
             ELSE [connect(m2) EXCEPT !.ret = TRUE]

ConnectToLCG(m, resp) ==
    IF m.ws = NullClient
        THEN [m EXCEPT !.ret = FALSE]
    ELSE IF m.ws.m_state # "Disconnected"
        THEN [disconnect(Entered(m, "disconnect")) EXCEPT !.ret = FALSE]
    ELSE IF m.now - m.attempt < 20000
        THEN [m EXCEPT !.ret = FALSE]
    ELSE LET m1 == [m EXCEPT !.attempt = m.now]
         IN  IF m1.token = ""
                 THEN [m1 EXCEPT !.ret = FALSE]
             ELSE LET m2 == [Request(m1, "assignLCG", m1.token, resp.code, "")
                                EXCEPT !.lcg = Sent(@, m1.now)]
                  IN  IF resp.code # 200
                          THEN [m2 EXCEPT !.ret = FALSE]
                      ELSE IF ~resp.fqdn \/ ~resp.country
                          THEN [m2 EXCEPT !.ret = FALSE]
                      ELSE [connect(m2) EXCEPT !.ret = TRUE]

\* The part of Update after the session is known to exist.
UpdateDrive(m, resp) ==
    LET m1 == loop(m)
    IN  IF m1.ret THEN m1
        ELSE ConnectToLCG(Entered(m1, "ConnectToLCG"), resp)

Update(m, code, resp) ==
    IF m.ws = NullClient
        THEN IF ~HasFlag(m.flags, FLAG_HAS_IP) \/ m.token = ""
                 THEN m
             ELSE LET tok == m.token
                      m1  == FetchDeviceInfo(m, tok, code)
                  IN  IF ~m1.ret
                          THEN [m1 EXCEPT !.token = ""]
                      ELSE UpdateDrive(
                               [m1 EXCEPT
                                   !.flags = FlagOr(@, FLAG_AUTHENTICATED),
                                   !.ws = GatewayClient(tok)],
                               resp)
    ELSE UpdateDrive(m, resp)

---------------------------------------------------------------------------
(* The state machine *)

NoFrame == [ResponseType |-> 2, Data |-> [kind |-> "null"]]

Cur == [flags |-> s_flags, token |-> authToken, ws |-> s_wsClient,
        attempt |-> lastConnectionAttempt, now |-> now,
        ka |-> keepAlive, lcg |-> assign, arg |-> -1, ret |-> FALSE,
        http |-> <<>>,
        reg |-> s_connectedChangedHandlers, nextId |-> nextHandleId,
        note |-> lastNote,
        frame |-> NoFrame, accept |-> <<>>,
        order |-> <<>>, invalidated |-> "continues", visitNew |-> FALSE,
        cmds |-> <<>>, portal |-> <<>>, notified |-> <<>>, invoked |-> {}]

StateOf(ws) == IF ws = NullClient THEN "null" ELSE ws.m_state
SocketOf(ws) == IF ws = NullClient THEN "null" ELSE ws.m_webSocket

\* What the history keeps of the state a handler started from.
Pre == [flags |-> s_flags, token |-> authToken,
        state |-> StateOf(s_wsClient), socket |-> SocketOf(s_wsClient),
        handlers |-> DOMAIN s_connectedChangedHandlers,
        nextId |-> nextHandleId]

\* The state a handler leaves.
Store(m) ==
    /\ s_flags' = m.flags
    /\ authToken' = m.token
    /\ s_wsClient' = m.ws
    /\ lastConnectionAttempt' = m.attempt
    /\ now' = m.now
    /\ keepAlive' = m.ka
    /\ assign' = m.lcg
    /\ s_connectedChangedHandlers' = m.reg
    /\ nextHandleId' = m.nextId
    /\ lastNote' = [h \in DOMAIN m.note \cap DOMAIN m.reg |-> m.note[h]]

\* The history entry of a handler run.
Entry(op, m) ==
    [op |-> op, arg |-> m.arg, ret |-> m.ret, http |-> m.http, pre |-> Pre,
     frame |-> m.frame, cmds |-> m.cmds, portal |-> m.portal,
     notified |-> m.notified, invoked |-> m.invoked]

Log(op, m) == lastCall' = Entry(op, m)

Run(op, m) == Store(m) /\ Log(op, m)

Init ==
    /\ s_flags = 0
    /\ authToken \in Tokens \cup {""}
    /\ s_wsClient = NullClient
    /\ lastConnectionAttempt = 0
    /\ now = 0
    /\ keepAlive = NoHistory
    /\ assign = NoHistory
    /\ s_connectedChangedHandlers = <<>>
    /\ nextHandleId = 0
    /\ lastNote = <<>>
    /\ lastCall = Entry("Init", Cur)

GotIP ==
    /\ Store(evGotIPHandler(Cur))
    /\ Log("GotIP", evGotIPHandler(Cur))

WiFiDisconnected ==
    /\ Store(evWiFiDisconnectedHandler(Cur))
    /\ Log("WiFiDisconnected", evWiFiDisconnectedHandler(Cur))

PairCall ==
    \E code \in HttpCodes, body \in PairBodies :
        LET m == Pair(Cur, code, IF code = 200 THEN body ELSE "")
        IN  Store(m) /\ Log("Pair", m)

UnPairCall ==
    /\ Store(UnPair(Cur))
    /\ Log("UnPair", UnPair(Cur))

UpdateTick ==
    \E code \in HttpCodes, resp \in LcgResponses :
        LET m == Update(Cur, code, resp)
        IN  Store(m) /\ Log("Update", m)

\* The event as the websocket delivers it: the map is walked in some
\* order, and the build resolves an invalidated iterator in some way.
Delivered(type) ==
    \E o \in Orders(DOMAIN s_connectedChangedHandlers),
       i \in Invalidated, v \in BOOLEAN :
        Run(type, handleEvent([Cur EXCEPT !.order = o, !.invalidated = i,
                                          !.visitNew = v], type))

TransportConnected ==
    /\ s_wsClient # NullClient
    /\ s_wsClient.m_webSocket = "handshake"
    /\ Delivered("WStype_CONNECTED")

TransportDisconnected ==
    /\ s_wsClient # NullClient
    /\ s_wsClient.m_webSocket \in {"handshake", "open", "closing"}
    /\ Delivered("WStype_DISCONNECTED")

AdvanceClock ==
    /\ now \div 10000 < MaxTicks
    /\ \E d \in TickSteps :
           Run("AdvanceClock", [Cur EXCEPT !.now = now + d])

Next ==
    \/ GotIP
    \/ WiFiDisconnected
    \/ PairCall
    \/ UnPairCall
    \/ UpdateTick
    \/ TransportConnected
    \/ TransportDisconnected
    \/ AdvanceClock

Spec == Init /\ [][Next]_vars

\* An inbound text frame on the open websocket; the command collaborator
\* answers each HandleCommand call as it likes.
TransportText ==
    /\ s_wsClient # NullClient
    /\ s_wsClient.m_webSocket = "open"
    /\ \E f \in Frames :
           \E acc \in [1..Len(ArrayOf(f.Data)) -> BOOLEAN] :
               LET m == handleEvent([Cur EXCEPT !.frame = f, !.accept = acc],
                                    "WStype_TEXT")
               IN  Store(m) /\ Log("WStype_TEXT", m)

NextFrames ==
    \/ Next
    \/ TransportText

SpecFrames == Init /\ [][NextFrames]_vars

\* The application registering and unregistering connected-changed handlers.
RegisterCall ==
    /\ nextHandleId < MaxHandlers
    /\ Run("Register", RegisterConnectedChangedHandler(Cur, "plain"))

UnRegisterCall ==
    \E id \in 0..MaxHandlers :
        LET m == UnRegisterConnectedChangedHandler([Cur EXCEPT !.arg = id], id)
        IN  Store(m) /\ Log("UnRegister", m)

\* The clock of the runs that follow the handlers: long enough for a
\* session to be made, opened and lost.
ObserverTicks == 3
ObserverClock ==
    /\ now < ObserverTicks * 10000
    /\ \E d \in TickSteps : Run("AdvanceClock", [Cur EXCEPT !.now = now + d])

NextObservers ==
    \/ GotIP
    \/ WiFiDisconnected
    \/ PairCall
    \/ UnPairCall
    \/ UpdateTick
    \/ TransportConnected
    \/ TransportDisconnected
    \/ ObserverClock
    \/ RegisterCall
    \/ UnRegisterCall

SpecObservers == Init /\ [][NextObservers]_vars

\* The device left to itself with the network up: Update keeps being
\* called, the clock keeps advancing, and the websocket reports how every
\* handshake ended.  Nobody pairs, unpairs or takes the network away.
HandshakeOutcome ==
    /\ s_wsClient # NullClient
    /\ s_wsClient.m_webSocket = "handshake"
    /\ (TransportConnected \/ TransportDisconnected)

NextLive ==
    \/ GotIP
    \/ UpdateTick
    \/ TransportConnected
    \/ TransportDisconnected
    \/ AdvanceClock

SpecLive ==
    /\ Init
    /\ [][NextLive]_vars
    /\ WF_vars(UpdateTick)
    /\ WF_vars(AdvanceClock)
    /\ WF_vars(HandshakeOutcome)

\* Handlers that change the registry from inside the notification.
RegisterReentrantCall ==
    /\ nextHandleId < MaxHandlers
    /\ \E handler \in Reentrant :
            Run("Register", RegisterConnectedChangedHandler(Cur, handler))

NextReentrant ==
    \/ NextObservers
    \/ RegisterReentrantCall

SpecReentrant == Init /\ [][NextReentrant]_vars

---------------------------------------------------------------------------
(* Direct calls: FetchDeviceInfo and the GatewayClient methods connect and *)
(* disconnect applied from every shape of state the program reaches.       *)

SocketIn(st) ==
    CASE st = "Disconnected" -> "closed"
      [] st = "Connecting" -> "handshake"
      [] st = "Connected" -> "open"

\* The calls start 20 000 ms after boot: without a session, with a session
\* created before the first connection attempt was due, or with a session
\* whose handshake was started (and answered) at that time.
InitUnit ==
    /\ s_flags \in {FLAG_NONE, FLAG_HAS_IP, FLAG_HAS_IP + FLAG_AUTHENTICATED}
    /\ authToken \in Tokens \cup {""}
    /\ s_wsClient \in {NullClient} \cup
           {[GatewayClient(authToken) EXCEPT !.m_state = st,
                                             !.m_webSocket = SocketIn(st)] :
               st \in {"Disconnected", "Connecting", "Connected"}}
    /\ s_wsClient # NullClient =>
           s_flags = FLAG_HAS_IP + FLAG_AUTHENTICATED /\ authToken # ""
    /\ now = 20000
    /\ lastConnectionAttempt =
           IF StateOf(s_wsClient) \in {"Connecting", "Connected"}
               THEN now ELSE 0
    /\ assign =
           IF StateOf(s_wsClient) \in {"Connecting", "Connected"}
               THEN Sent(NoHistory, now) ELSE NoHistory
    /\ keepAlive =
           IF StateOf(s_wsClient) = "Connected"
               THEN Sent(NoHistory, now) ELSE NoHistory
    /\ s_connectedChangedHandlers = <<>>
    /\ nextHandleId = 0
    /\ lastNote = <<>>
    /\ lastCall = Entry("Init", Cur)

CallFetchDeviceInfo ==
    \E tok \in Tokens, code \in HttpCodes :
        LET m == FetchDeviceInfo(Cur, tok, code)
        IN  Store(m) /\ Log("FetchDeviceInfo", m)

CallConnect ==
    /\ s_wsClient # NullClient
    /\ Run("connect", connect(Cur))

CallDisconnect ==
    /\ s_wsClient # NullClient
    /\ Run("disconnect", disconnect(Cur))

NextUnit ==
    \/ CallFetchDeviceInfo
    \/ CallConnect
    \/ CallDisconnect

SpecUnit == InitUnit /\ [][NextUnit]_vars

---------------------------------------------------------------------------
(* Properties *)

HasNetwork(f) == HasFlag(f, FLAG_HAS_IP)
Authenticated(f) == HasFlag(f, FLAG_AUTHENTICATED)
Called(op) == lastCall.op = op
Issued(url) == \E i \in 1..Len(lastCall.http) : lastCall.http[i].url = url
ResponseTo(url) ==
    lastCall.http[CHOOSE i \in 1..Len(lastCall.http) :
                      lastCall.http[i].url = url]

\* C1: right after the network-loss event no session exists, IsConnected()
\* is false and both connection flags are cleared, whatever the session's
\* state was before the event.
NetworkLossClearsAll ==
    Called("WiFiDisconnected") =>
        /\ s_wsClient = NullClient
        /\ ~IsConnected
        /\ s_flags = FLAG_NONE

NetworkLossWhileConnected ==
    /\ Called("WiFiDisconnected")
    /\ lastCall.pre.state = "Connected"
    /\ lastCall.pre.flags = FLAG_HAS_IP + FLAG_AUTHENTICATED
    /\ s_wsClient = NullClient
    /\ s_flags = FLAG_NONE

\* C2: on one connection, counting the initial keep-alive sent on the
\* connected event, no keep-alive frame is sent less than 30 000 ms after
\* the previous one, and an Update tick on a Connected session never leaves
\* a keep-alive overdue.
KeepAliveSpacing ==
    /\ keepAlive.gap # -1 => keepAlive.gap >= 30000
    /\ (Called("Update") /\ IsConnected) => now - keepAlive.at < 30000

\* C3: two gateway-assignment requests are never issued less than
\* 20 000 ms apart, also across session destruction and re-creation.
AssignSpacing == assign.gap # -1 => assign.gap >= 20000

AssignAfterRecreation ==
    /\ Called("Update")
    /\ lastCall.pre.state = "null"
    /\ Issued("self") /\ Issued("assignLCG")
    /\ assign.gap = 20000

\* C4: the Authenticated flag implies that the credential store holds a
\* credential.
AuthenticatedImpliesCredential == Authenticated(s_flags) => authToken # ""

\* C5: a session exists only while the HasNetwork flag is set.
SessionOnlyWithNetwork == s_wsClient # NullClient => HasNetwork(s_flags)

SessionCreatedWithNetwork ==
    /\ Called("Update")
    /\ lastCall.pre.state = "null"
    /\ s_wsClient # NullClient
    /\ HasNetwork(s_flags)
    /\ assign.at # -1

\* C6: with HasNetwork set, a Pair that receives 200 and a non-empty
\* credential returns true, leaves IsPaired() true and the credential store
\* holding exactly the credential of the response.
PairSuccess ==
    ( /\ Called("Pair")
      /\ HasNetwork(lastCall.pre.flags)
      /\ Issued("pair")
      /\ ResponseTo("pair").code = 200
      /\ ResponseTo("pair").data # "" ) =>
        /\ lastCall.ret
        /\ IsPaired
        /\ authToken = ResponseTo("pair").data

PairReplacesCredential ==
    /\ Called("Pair")
    /\ lastCall.ret
    /\ lastCall.pre.token # ""
    /\ authToken # lastCall.pre.token
    /\ authToken = ResponseTo("pair").data
    /\ IsPaired

\* C7: a Pair that fails (no network, a response other than 200, or 200
\* with an empty credential) returns false and leaves the credential store
\* and the Authenticated flag as they were.
PairFailed ==
    \/ ~HasNetwork(lastCall.pre.flags)
    \/ ResponseTo("pair").code # 200
    \/ ResponseTo("pair").data = ""

PairFailure ==
    (Called("Pair") /\ PairFailed) =>
        /\ ~lastCall.ret
        /\ authToken = lastCall.pre.token
        /\ Authenticated(s_flags) = Authenticated(lastCall.pre.flags)

PairRejectedKeepsCredential ==
    /\ Called("Pair")
    /\ Issued("pair")
    /\ ResponseTo("pair").code = 401
    /\ ~lastCall.ret
    /\ authToken # ""
    /\ authToken = lastCall.pre.token

\* C8: FetchDeviceInfo with HasNetwork set clears the stored credential and
\* returns false on 401, and on 200 leaves the credential, sets
\* Authenticated and returns true; with HasNetwork cleared it returns false,
\* issues no request and changes neither credential nor flags.
VerificationOutcome ==
    Called("FetchDeviceInfo") =>
        IF ~HasNetwork(lastCall.pre.flags)
            THEN /\ ~lastCall.ret
                 /\ lastCall.http = <<>>
                 /\ authToken = lastCall.pre.token
                 /\ s_flags = lastCall.pre.flags
        ELSE IF ResponseTo("self").code = 401
            THEN ~lastCall.ret /\ authToken = ""
        ELSE IF ResponseTo("self").code = 200
            THEN /\ lastCall.ret
                 /\ authToken = lastCall.pre.token
                 /\ Authenticated(s_flags)
        ELSE TRUE

VerificationWithoutNetwork ==
    /\ Called("FetchDeviceInfo")
    /\ ~HasNetwork(lastCall.pre.flags)
    /\ lastCall.http = <<>>
    /\ authToken # ""

\* C9: an Update tick whose credential verification gets a response other
\* than 200 and 401 leaves the stored credential untouched.
TransientKeepsCredential ==
    ( /\ Called("Update")
      /\ Issued("self")
      /\ ResponseTo("self").code \notin {200, 401} ) =>
        authToken = lastCall.pre.token

\* C10: connect() changes the state (to Connecting) and starts a handshake
\* only when the state is Disconnected, disconnect() changes the state (to
\* Disconnecting) and requests a close only when the state is Connected; in
\* every other state the call changes neither the state nor the websocket.
ConnectDisconnectGuards ==
    /\ Called("connect") =>
           IF lastCall.pre.state = "Disconnected"
               THEN /\ s_wsClient.m_state = "Connecting"
                    /\ s_wsClient.m_webSocket = "handshake"
               ELSE /\ s_wsClient.m_state = lastCall.pre.state
                    /\ s_wsClient.m_webSocket = lastCall.pre.socket
    /\ Called("disconnect") =>
           IF lastCall.pre.state = "Connected"
               THEN /\ s_wsClient.m_state = "Disconnecting"
                    /\ s_wsClient.m_webSocket = "closing"
               ELSE /\ s_wsClient.m_state = lastCall.pre.state
                    /\ s_wsClient.m_webSocket = lastCall.pre.socket

ConnectWhileDisconnecting ==
    /\ Called("connect")
    /\ lastCall.pre.state = "Disconnecting"
    /\ s_wsClient.m_state = "Disconnecting"
    /\ s_wsClient.m_webSocket = "closing"

\* C11: a ResponseType 0 frame whose Data list has n entries makes exactly
\* n HandleCommand calls, in list order, each with its entry's id, type,
\* intensity, duration and model, whatever earlier calls returned, and
\* leaves the session state as it was.
ControlFrame ==
    /\ Called("WStype_TEXT")
    /\ lastCall.frame.ResponseType = 0
    /\ lastCall.frame.Data.kind = "array"

CommandBatchDispatch ==
    ControlFrame =>
        LET data == lastCall.frame.Data.items
        IN  /\ Len(lastCall.cmds) = Len(data)
            /\ \A i \in 1..Len(data) :
                   /\ lastCall.cmds[i].id = data[i].Id
                   /\ lastCall.cmds[i].type = data[i].Type
                   /\ lastCall.cmds[i].intensity = data[i].Intensity
                   /\ lastCall.cmds[i].duration = data[i].Duration
                   /\ lastCall.cmds[i].model = data[i].Model
            /\ StateOf(s_wsClient) = lastCall.pre.state
            /\ SocketOf(s_wsClient) = lastCall.pre.socket

RejectedThenAccepted ==
    /\ ControlFrame
    /\ Len(lastCall.frame.Data.items) = 2
    /\ Len(lastCall.cmds) = 2
    /\ ~lastCall.cmds[1].ok
    /\ lastCall.cmds[2].ok
    /\ lastCall.cmds[1].id # lastCall.cmds[2].id
    /\ IsConnected

\* C12: a frame whose ResponseType is neither 0 nor 1 makes no HandleCommand
\* and no SetAlwaysEnabled call and leaves session state, flags and
\* credential as they were; a ResponseType 1 frame makes exactly one
\* SetAlwaysEnabled call with its boolean Data and no HandleCommand call.
FrameRouting ==
    Called("WStype_TEXT") =>
        /\ lastCall.frame.ResponseType \notin {0, 1} =>
               /\ lastCall.cmds = <<>>
               /\ lastCall.portal = <<>>
               /\ StateOf(s_wsClient) = lastCall.pre.state
               /\ s_flags = lastCall.pre.flags
               /\ authToken = lastCall.pre.token
        /\ (lastCall.frame.ResponseType = 1
               /\ lastCall.frame.Data.kind = "bool") =>
               /\ lastCall.portal = <<lastCall.frame.Data.val>>
               /\ lastCall.cmds = <<>>

UnknownFrameIgnored ==
    /\ Called("WStype_TEXT")
    /\ lastCall.frame.ResponseType = 2
    /\ lastCall.frame.Data.kind = "array"
    /\ Len(lastCall.frame.Data.items) = 1
    /\ lastCall.cmds = <<>>
    /\ IsConnected

\* C13: handles are issued from a counter that only grows, so a handle is
\* never one issued before, also after entries were removed; a connected or
\* disconnected event calls exactly the handlers registered when it arrives,
\* each once, with the new value; unregistering an unknown handle changes
\* nothing.
NotifiedIds == {lastCall.notified[i].id : i \in 1..Len(lastCall.notified)}
NotifiedOnce(value) ==
    /\ NotifiedIds = lastCall.pre.handlers
    /\ Len(lastCall.notified) = Cardinality(lastCall.pre.handlers)
    /\ \A i \in 1..Len(lastCall.notified) : lastCall.notified[i].value = value
HandleRegistry ==
    /\ \A h \in DOMAIN s_connectedChangedHandlers : h < nextHandleId
    /\ Called("Register") =>
            /\ lastCall.ret = lastCall.pre.nextId
            /\ lastCall.ret \notin lastCall.pre.handlers
            /\ nextHandleId = lastCall.pre.nextId + 1
            /\ DOMAIN s_connectedChangedHandlers =
                    lastCall.pre.handlers \cup {lastCall.ret}
    /\ ~Called("Register") => nextHandleId = lastCall.pre.nextId
    /\ Called("WStype_CONNECTED") => NotifiedOnce(TRUE)
    /\ Called("WStype_DISCONNECTED") => NotifiedOnce(FALSE)
    /\ ~Called("WStype_CONNECTED") /\ ~Called("WStype_DISCONNECTED") =>
            lastCall.notified = <<>>
    /\ Called("UnRegister") =>
            /\ DOMAIN s_connectedChangedHandlers =
                    lastCall.pre.handlers \ {lastCall.arg}
            /\ s_flags = lastCall.pre.flags
            /\ authToken = lastCall.pre.token
            /\ StateOf(s_wsClient) = lastCall.pre.state

RegisteredAfterRemoval ==
    /\ Called("Register")
    /\ lastCall.pre.handlers = {}
    /\ lastCall.ret = 1

NotifiedTheRegistered ==
    /\ Called("WStype_CONNECTED")
    /\ lastCall.pre.handlers = {1}
    /\ lastCall.notified = <<[id |-> 1, value |-> TRUE]>>

UnknownHandleUnregistered ==
    /\ Called("UnRegister")
    /\ lastCall.arg \notin lastCall.pre.handlers
    /\ lastCall.pre.handlers # {}

\* C14: right after UnPair, whatever the state before it, the credential
\* store is empty, the Authenticated flag is cleared, no session exists,
\* the HasNetwork flag is what it was, and no HTTP request was issued.
UnPairEffect ==
    Called("UnPair") =>
        /\ authToken = ""
        /\ ~Authenticated(s_flags)
        /\ ~IsPaired
        /\ s_wsClient = NullClient
        /\ ~IsConnected
        /\ HasNetwork(s_flags) = HasNetwork(lastCall.pre.flags)
        /\ lastCall.http = <<>>

UnPairWhileConnected ==
    /\ Called("UnPair")
    /\ lastCall.pre.state = "Connected"
    /\ lastCall.pre.token # ""
    /\ HasNetwork(s_flags)

\* C16: a Pair call that gets a non-200 response or an empty credential
\* leaves the flags, the credential store and the session as they were: a
\* session that existed still exists and is in the same connection state.
FailedPairChangesNothing ==
    (/\ Called("Pair")
     /\ Issued("pair")
     /\ \/ ResponseTo("pair").code # 200
        \/ ResponseTo("pair").data = "") =>
        /\ s_flags = lastCall.pre.flags
        /\ authToken = lastCall.pre.token
        /\ StateOf(s_wsClient) = lastCall.pre.state
        /\ IsConnected = (lastCall.pre.state = "Connected")

\* C18: whenever a session exists the Authenticated flag is set and the
\* credential store holds the credential the session was constructed with;
\* an Update tick creates a session only with HasNetwork set, a credential
\* stored and its verification answered 200; and UnPair, Pair, network loss
\* and a failed verification leave no session behind.
SessionHasItsCredential ==
    /\ s_wsClient # NullClient =>
            /\ Authenticated(s_flags)
            /\ authToken # ""
            /\ authToken = s_wsClient.deviceToken
    /\ (Called("Update") /\ lastCall.pre.state = "null"
            /\ s_wsClient # NullClient) =>
            /\ HasNetwork(lastCall.pre.flags)
            /\ lastCall.pre.token # ""
            /\ Issued("self")
            /\ ResponseTo("self").code = 200
            /\ ResponseTo("self").hdr = lastCall.pre.token
            /\ s_wsClient.deviceToken = lastCall.pre.token
    /\ (Called("UnPair") \/ Called("WiFiDisconnected")
            \/ (Called("Pair") /\ Issued("pair"))) =>
            s_wsClient = NullClient
    /\ (Called("Update") /\ Issued("self")
            /\ ResponseTo("self").code # 200) =>
            s_wsClient = NullClient

SessionBuiltFromStoredCredential ==
    /\ Called("Update")
    /\ lastCall.pre.state = "null"
    /\ s_wsClient # NullClient
    /\ s_wsClient.deviceToken = "tokB"
    /\ authToken = "tokB"

\* C20: Update enters ConnectToLCG only with a session that is
\* Disconnected, so no gateway-assignment request is issued while the
\* session is Connecting or Connected, disconnect() is never called, and no
\* session is ever Disconnecting.
OrchestrationNeverDisconnects ==
    /\ StateOf(s_wsClient) # "Disconnecting"
    /\ \A c \in lastCall.invoked :
            /\ c.fn = "ConnectToLCG"
            /\ c.state = "Disconnected"
    /\ Issued("assignLCG") =>
            /\ Called("Update")
            /\ lastCall.pre.state \in {"null", "Disconnected"}
            /\ \E c \in lastCall.invoked : c.fn = "ConnectToLCG"
    /\ (Called("Update")
            /\ lastCall.pre.state \in {"Connecting", "Connected"}) =>
            /\ lastCall.invoked = {}
            /\ lastCall.http = <<>>
            /\ StateOf(s_wsClient) = lastCall.pre.state

UpdateWhileConnecting ==
    /\ Called("Update")
    /\ lastCall.pre.state = "Connecting"
    /\ StateOf(s_wsClient) = "Connecting"
    /\ now - lastConnectionAttempt >= 20000

ReentrantFanOutCompletes ==
    (Called("WStype_CONNECTED") \/ Called("WStype_DISCONNECTED")) =>
        \A h \in lastCall.pre.handlers \cap DOMAIN s_connectedChangedHandlers :
            Cardinality({i \in 1..Len(lastCall.notified) :
                            lastCall.notified[i].id = h}) = 1

\* C15: with the network up, Update called again and again, the clock
\* advancing and every handshake reported, any failure other than a 401 on
\* the credential verification is followed, without a Pair call, by a new
\* verification or gateway-assignment request: by a request that is not
\* the failed one again, or by a request made after the device has done
\* something else.  The clock of the model stops at MaxTicks, so the
\* failure is one that leaves the cooldown room to pass.
RoomToRetry == now + 20000 <= MaxTicks * 10000
VerificationFailed ==
    /\ Called("Update")
    /\ Issued("self")
    /\ ResponseTo("self").code \notin {200, 401}
AssignmentFailed ==
    /\ Called("Update")
    /\ Issued("assignLCG")
    /\ StateOf(s_wsClient) = "Disconnected"
HandshakeFailed ==
    /\ Called("WStype_DISCONNECTED")
    /\ lastCall.pre.state = "Connecting"
ConnectionDropped ==
    /\ Called("WStype_DISCONNECTED")
    /\ lastCall.pre.state = "Connected"
Failed ==
    \/ VerificationFailed
    \/ AssignmentFailed
    \/ HandshakeFailed
    \/ ConnectionDropped
Requested == Called("Update") /\ lastCall.http # <<>>
EventualRetry ==
    []((Failed /\ RoomToRetry) =>
            \/ <>(Requested /\ ~Failed)
            \/ <>(~Requested /\ <>Requested))

\* The same for the failures that leave a session behind.
RetryAfterGatewayFailure ==
    [](((AssignmentFailed \/ HandshakeFailed \/ ConnectionDropped)
            /\ RoomToRetry) =>
            \/ <>(Requested /\ ~Failed)
            \/ <>(~Requested /\ <>Requested))

====
